---- MODULE Spec2Model ----
(***************************************************************************)
(* Voice session orchestration of the Auron assistant.                     *)
(*                                                                         *)
(* AssistantController (assistant_controller.py) owns a wake word engine   *)
(* (VoiceKeyEngine, voicekey_engine.py), a recorder/transcriber            *)
(* (STTEngine, stt_engine.py) and the lock _busy.  Every positive wake     *)
(* detection runs _on_wake on a thread of its own; an accepted wake event  *)
(* runs _process_wake_event on a worker thread; start_voice_recognition,   *)
(* stop_voice_recognition and the shutdown sequence of flask_app.py run on *)
(* caller threads.  Every thread is a process of this model and every      *)
(* statement that reads or writes shared state is one step.                *)
(*                                                                         *)
(* The controller is taken as constructed: the engine exists with an open, *)
(* inactive stream, voice recognition is off and the lock is free.         *)
(* VoiceKeyEngine._audio_callback dispatches every positive detection.     *)
(* Of the recorder's buffers the orchestration reads only whether          *)
(* audio_frames is empty, which is what the worker records here.           *)
(*                                                                         *)
(* Six parts are looked at on their own, each with a specification of its  *)
(* own: the wake listener against a clock (GateSpec), one activation of    *)
(* record_until_silence frame by frame (RecSpec, FairRecSpec), successive  *)
(* calls of the engine's start() and pause() (EngSpec), the command router *)
(* (RouteSpec), concurrent calls of TTSPlayer.speak (TtsSpec), and the     *)
(* worker together with the speaker thread handle_command starts           *)
(* (ReplySpec).                                                            *)
(***************************************************************************)
EXTENDS Naturals, FiniteSets, Sequences, TLC

\* Number of wake detections (callback threads) of one run.
MaxWakes == 2
\* Number of caller threads issuing control operations.
NumCallers == 1

\* The wake listener against a clock: last tick, and number of detections.
MaxTime == 12
MaxDetections == 3
\* cooldown_seconds = 1.0, the argument the controller passes, in ticks of 100 ms
CooldownTicks == 10

\* The recorder frame by frame; time is counted in frame periods (frame_ms).
\* _pre_pad_frames, and min_silence_time in frame periods
PrePadFrames == 2
MinSilenceFrames == 2
\* max_record_seconds in frame periods: room for a full pre-roll, speech and a
\* full silence window
MaxRecordFrames == PrePadFrames + MinSilenceFrames + 2
\* the clock stops one frame period after the timeout
MaxClock == MaxRecordFrames + 1

\* Number of successive calls of the engine's methods.
MaxCalls == 3
\* commands registered in a CommandRouter, and characters of a routed text
MaxCommands == 2
MaxTextLen == 2

Sessions == 1..MaxWakes
Callers == 1..NumCallers

VARIABLES
    voice_enabled,  \* AssistantController.voice_enabled
    stream,         \* self.engine.stream: "none" (closed and dropped), "inactive", "active"
    porcupine,      \* self.engine.porcupine is not None
    busy,           \* AssistantController._busy is locked
    holder,         \* the session whose try-acquire locked _busy (0: nobody); history
    cb,             \* cb[i]: position of the i-th _run_callback thread
    wk,             \* wk[i]: the worker thread spawned by the i-th callback thread
    ctl,            \* ctl[c]: position of caller thread c
    \* one wake listener against a clock
    gnow,           \* time.time(), in ticks of 100 ms
    det,            \* det[j]: time of the j-th frame with result >= 0
    disp,           \* disp[j]: the j-th detection started a _run_callback thread
    gerr,           \* << t >>: time of the last frame whose processing raised; history
    \* one activation of record_until_silence, frame by frame
    rpc,            \* position of the polling thread
    rclock,         \* time.time() - start_time, in frame periods
    rstream,        \* the recorder's InputStream
    rcls,           \* rcls[j]: what _vad_is_speech did on the j-th frame; history
    pad_buffer,     \* frame numbers
    audio_frames,   \* frame numbers
    have_detected_speech,
    silence_started_at, \* << >> for None, << t >> for a time
    rnow,           \* the loop's local `now`
    exitBy,         \* how the polling loop was left; history
    result,         \* frame numbers of the returned buffer
    \* calls of the engine's methods from one thread
    elog,           \* elog[j]: the j-th call and what it did; history
    \* one CommandRouter
    commands,       \* CommandRouter._commands
    routed,         \* the last call of route: the number of commands then, its
                    \* text, what it returned and the handler calls it made; history
    \* one TTSPlayer and the threads that call speak
    spk,            \* spk[t]: position of speaker thread t and the text it was given
    tlock,          \* the thread inside `with self._lock` (0: nobody)
    tmodel,         \* TTSPlayer.model is not None
    tts_enabled     \* AssistantController.tts_enabled

orchVars == <<voice_enabled, stream, porcupine, busy, holder, cb, wk, ctl>>
gateVars == <<gnow, det, disp, gerr>>
recVars == <<rpc, rclock, rstream, rcls, pad_buffer, audio_frames,
             have_detected_speech, silence_started_at, rnow, exitBy, result>>
engVars == <<elog>>

routeVars == <<commands, routed>>

ttsVars == <<spk, tlock, tmodel, tts_enabled>>

vars == <<orchVars, gateVars, recVars, engVars, routeVars, ttsVars>>

\* The locals of one _process_wake_event / record_until_silence activation;
\* paused, resumed, recFailed, trArg, trOut and handled record what the
\* activation did.
NoWorker ==
    [pc |-> "none", audio |-> "unset", exc |-> FALSE, paused |-> FALSE,
     resumed |-> "unset", rec |-> "closed", recFailed |-> FALSE,
     have |-> FALSE, sil |-> FALSE, frames |-> FALSE,
     trArg |-> "unset", trOut |-> "unset", handled |-> 0]

\* A worker thread that has ended: returned ("done") or left by an exception ("dead")
Ended(how) == [NoWorker EXCEPT !.pc = how]

\* no detection yet
GateIdle ==
    /\ gnow = 0
    /\ det = << >>
    /\ disp = << >>
    /\ gerr = << >>

\* the locals of record_until_silence as lines 99-103 set them; the stream is st
RecLocals(pc, st) ==
    /\ rpc = pc
    /\ rclock = 0
    /\ rstream = st
    /\ rcls = << >>
    /\ pad_buffer = << >>
    /\ audio_frames = << >>
    /\ have_detected_speech = FALSE
    /\ silence_started_at = << >>
    /\ rnow = 0
    /\ exitBy = "none"
    /\ result = << >>

\* no method of the engine called yet
EngIdle == elog = << >>

\* a CommandRouter after construction, and no call of route yet
NoRoute == [n |-> 0, text |-> << >>, out |-> << >>, calls |-> << >>]

RouteIdle ==
    /\ commands = << >>
    /\ routed = NoRoute

\* a speaker thread that has not been started
NoSpeaker == [pc |-> "idle", text |-> "none"]

\* a TTSPlayer after construction with its model loaded, nobody speaking
TtsIdle ==
    /\ spk = [t \in Sessions |-> NoSpeaker]
    /\ tlock = 0
    /\ tmodel = TRUE
    /\ tts_enabled = TRUE

Init ==
    /\ voice_enabled = FALSE
    /\ stream = "inactive"
    /\ porcupine = TRUE
    /\ busy = FALSE
    /\ holder = 0
    /\ cb = [i \in Sessions |-> "idle"]
    /\ wk = [i \in Sessions |-> NoWorker]
    /\ ctl = [c \in Callers |-> "idle"]
    /\ GateIdle
    /\ RecLocals("idle", "closed")
    /\ EngIdle
    /\ RouteIdle
    /\ TtsIdle

-----------------------------------------------------------------------------
(* VoiceKeyEngine: start / pause / stop as relations on the stream state.   *)
(* A call of the underlying stream (stream.start(), stream.stop()) either   *)
(* succeeds or raises; "raised" tells the caller which.                     *)

\* Mutant of EngineStart: stream.start() is called whenever there is a stream,
\* as WakewordEngine.start does
EngineStart_Unconditional(s) ==
    IF s = "none"
    THEN {<<s, FALSE, 0>>}
    ELSE {<<"active", FALSE, 1>>, <<s, TRUE, 1>>}

\* VoiceKeyEngine.start: << stream after, raised, calls of stream.start() >>
EngineStart(s) ==
    IF s = "inactive"
    THEN {<<"active", FALSE, 1>>, <<"inactive", TRUE, 1>>}
    ELSE {<<s, FALSE, 0>>}

\* VoiceKeyEngine.pause: << stream after, raised, calls of stream.stop() >>
EnginePause(s) ==
    IF s = "active"
    THEN {<<"inactive", FALSE, 1>>, <<"active", TRUE, 1>>, <<"inactive", TRUE, 1>>}
    ELSE {<<s, FALSE, 0>>}

\* VoiceKeyEngine.stop: stream after; an exception of stream.stop() or
\* stream.close() is swallowed inside stop and leaves the stream in place
EngineStop(s) ==
    IF s = "none" THEN {"none"}
    ELSE IF s = "active" THEN {"none", "active", "inactive"}
    ELSE {"none", "inactive"}

-----------------------------------------------------------------------------
(* Wake detection and _on_wake                                              *)

\* Mutant of Detect: the audio callback calls self.callback() itself, as
\* WakewordEngine._audio_callback does, so _on_wake's try-acquire runs on the
\* audio thread
Detect_Inline(i) ==
    /\ stream = "active"
    /\ porcupine
    /\ cb[i] = "idle"
    /\ \A j \in Sessions : j < i => cb[j] # "idle"
    /\ IF busy
       THEN /\ cb' = [cb EXCEPT ![i] = "dropped"]
            /\ UNCHANGED <<busy, holder>>
       ELSE /\ busy' = TRUE
            /\ holder' = i
            /\ cb' = [cb EXCEPT ![i] = "spawn"]
    /\ UNCHANGED <<voice_enabled, stream, porcupine, wk, ctl>>
    /\ UNCHANGED <<gateVars, recVars, engVars, routeVars, ttsVars>>

\* _audio_callback: a frame with result >= 0 starts a thread running callback
Detect(i) ==
    /\ stream = "active"
    /\ porcupine
    /\ cb[i] = "idle"
    /\ \A j \in Sessions : j < i => cb[j] # "idle"
    /\ cb' = [cb EXCEPT ![i] = "on_wake"]
    /\ UNCHANGED <<voice_enabled, stream, porcupine, busy, holder, wk, ctl>>
    /\ UNCHANGED <<gateVars, recVars, engVars, routeVars, ttsVars>>

\* Mutant of OnWakeAcquire: the result of the try-acquire is ignored
OnWakeAcquire_NoGuard(i) ==
    /\ cb[i] = "on_wake"
    /\ busy' = TRUE
    /\ holder' = i
    /\ cb' = [cb EXCEPT ![i] = "spawn"]
    /\ UNCHANGED <<voice_enabled, stream, porcupine, wk, ctl>>
    /\ UNCHANGED <<gateVars, recVars, engVars, routeVars, ttsVars>>

\* Mutant of OnWakeAcquire: no return after the guard was found held, so the
\* worker thread is started all the same
OnWakeAcquire_NoReturn(i) ==
    /\ cb[i] = "on_wake"
    /\ IF busy
       THEN /\ cb' = [cb EXCEPT ![i] = "dropped"]
            /\ wk' = [wk EXCEPT ![i] = [NoWorker EXCEPT !.pc = "pause"]]
            /\ UNCHANGED <<busy, holder>>
       ELSE /\ busy' = TRUE
            /\ holder' = i
            /\ cb' = [cb EXCEPT ![i] = "spawn"]
            /\ UNCHANGED wk
    /\ UNCHANGED <<voice_enabled, stream, porcupine, ctl>>
    /\ UNCHANGED <<gateVars, recVars, engVars, routeVars, ttsVars>>

\* _on_wake, the try-acquire: returns when _busy is held
OnWakeAcquire(i) ==
    /\ cb[i] = "on_wake"
    /\ IF busy
       THEN /\ cb' = [cb EXCEPT ![i] = "dropped"]
            /\ UNCHANGED <<busy, holder>>
       ELSE /\ busy' = TRUE
            /\ holder' = i
            /\ cb' = [cb EXCEPT ![i] = "spawn"]
    /\ UNCHANGED <<voice_enabled, stream, porcupine, wk, ctl>>
    /\ UNCHANGED <<gateVars, recVars, engVars, routeVars, ttsVars>>

\* _on_wake, threading.Thread(target=self._process_wake_event).start()
OnWakeSpawn(i) ==
    /\ cb[i] = "spawn"
    /\ cb' = [cb EXCEPT ![i] = "done"]
    /\ wk' = [wk EXCEPT ![i] = [NoWorker EXCEPT !.pc = "pause"]]
    /\ UNCHANGED <<voice_enabled, stream, porcupine, busy, holder, ctl>>
    /\ UNCHANGED <<gateVars, recVars, engVars, routeVars, ttsVars>>

-----------------------------------------------------------------------------
(* _process_wake_event                                                      *)

Upd(w, r) == [wk EXCEPT ![w] = r]

\* self.engine.pause(); an exception leaves the try block for the finally
WkPause(w) ==
    /\ wk[w].pc = "pause"
    /\ \E r \in EnginePause(stream) :
        /\ stream' = r[1]
        /\ wk' = Upd(w, IF r[2]
                        THEN [wk[w] EXCEPT !.pc = "resume", !.exc = TRUE]
                        ELSE [wk[w] EXCEPT !.pc = "rec_open", !.paused = TRUE])
    /\ UNCHANGED <<voice_enabled, porcupine, busy, holder, cb, ctl>>
    /\ UNCHANGED <<gateVars, recVars, engVars, routeVars, ttsVars>>

\* Mutant of WkRecOpen: the resume step is not in a finally clause, so a
\* failed recording skips it
WkRecOpen_SkipResume(w) ==
    /\ wk[w].pc = "rec_open"
    /\ \/ wk' = Upd(w, [wk[w] EXCEPT !.pc = "recording", !.rec = "active"])
       \/ wk' = Upd(w, [wk[w] EXCEPT !.pc = "check", !.recFailed = TRUE,
                                     !.audio = "None"])
    /\ UNCHANGED <<voice_enabled, stream, porcupine, busy, holder, cb, ctl>>
    /\ UNCHANGED <<gateVars, recVars, engVars, routeVars, ttsVars>>

\* record_until_silence up to entering `with sd.InputStream(...)`: the stream
\* opens and starts, or the constructor raises and the worker sets audio = None
WkRecOpen(w) ==
    /\ wk[w].pc = "rec_open"
    /\ \/ wk' = Upd(w, [wk[w] EXCEPT !.pc = "recording", !.rec = "active"])
       \/ wk' = Upd(w, [wk[w] EXCEPT !.pc = "resume", !.recFailed = TRUE,
                                     !.audio = "None"])
    /\ UNCHANGED <<voice_enabled, stream, porcupine, busy, holder, cb, ctl>>
    /\ UNCHANGED <<gateVars, recVars, engVars, routeVars, ttsVars>>

\* on_audio for a frame the classifier calls speech: pad_buffer, which holds at
\* least this frame, is moved into audio_frames and the frame is appended.
\* Of audio_frames the worker reads only whether it is empty: frames.
OnAudioSpeech(r) ==
    [r EXCEPT !.have = TRUE, !.sil = FALSE, !.frames = TRUE]

\* on_audio for a frame the classifier calls non-speech: kept, and the silence
\* timer started, only once speech was detected
OnAudioSilence(r) ==
    IF r.have
    THEN [r EXCEPT !.frames = TRUE, !.sil = TRUE]
    ELSE r

\* on_audio when _vad_is_speech raises: the exception leaves the callback; the
\* audio library then keeps the stream running or aborts it
OnAudioRaise(r) ==
    {[r EXCEPT !.recFailed = TRUE, !.rec = st] : st \in {"active", "aborted"}}

\* The recorder's callback thread delivers one frame to on_audio
RecFrame(w) ==
    /\ wk[w].pc \in {"recording", "poll_sub"}
    /\ wk[w].rec = "active"
    /\ \E r \in {OnAudioSpeech(wk[w]), OnAudioSilence(wk[w])} \cup OnAudioRaise(wk[w]) :
        wk' = Upd(w, r)
    /\ UNCHANGED <<voice_enabled, stream, porcupine, busy, holder, cb, ctl>>
    /\ UNCHANGED <<gateVars, recVars, engVars, routeVars, ttsVars>>

\* Mutant of WkPollTimeout: the stream is not closed on leaving the loop
WkPollTimeout_NoClose(w) ==
    /\ wk[w].pc = "recording"
    /\ wk' = Upd(w, [wk[w] EXCEPT !.pc = "resume",
                                  !.audio = IF wk[w].frames THEN "nonempty" ELSE "empty"])
    /\ UNCHANGED <<voice_enabled, stream, porcupine, busy, holder, cb, ctl>>
    /\ UNCHANGED <<gateVars, recVars, engVars, routeVars, ttsVars>>

\* polling loop, `now - start_time > max_record_seconds`: break
WkPollTimeout(w) ==
    /\ wk[w].pc = "recording"
    /\ wk' = Upd(w, [wk[w] EXCEPT !.pc = "rec_close"])
    /\ UNCHANGED <<voice_enabled, stream, porcupine, busy, holder, cb, ctl>>
    /\ UNCHANGED <<gateVars, recVars, engVars, routeVars, ttsVars>>

\* polling loop, `have_detected_speech and silence_started_at is not None`
WkPollCheck(w) ==
    /\ wk[w].pc = "recording"
    /\ wk[w].have /\ wk[w].sil
    /\ wk' = Upd(w, [wk[w] EXCEPT !.pc = "poll_sub"])
    /\ UNCHANGED <<voice_enabled, stream, porcupine, busy, holder, cb, ctl>>
    /\ UNCHANGED <<gateVars, recVars, engVars, routeVars, ttsVars>>

\* Mutant of WkPollSub: the TypeError is not caught by the worker's inner
\* except clause and stays pending through the finally clause
WkPollSub_Uncaught(w) ==
    /\ wk[w].pc = "poll_sub"
    /\ IF wk[w].sil
       THEN \E nxt \in {"rec_close", "recording"} :
                wk' = Upd(w, [wk[w] EXCEPT !.pc = nxt])
       ELSE wk' = Upd(w, [wk[w] EXCEPT !.pc = "resume", !.rec = "closed",
                                       !.recFailed = TRUE, !.exc = TRUE,
                                       !.have = FALSE, !.sil = FALSE,
                                       !.frames = FALSE])
    /\ UNCHANGED <<voice_enabled, stream, porcupine, busy, holder, cb, ctl>>
    /\ UNCHANGED <<gateVars, recVars, engVars, routeVars, ttsVars>>

\* polling loop, `now - silence_started_at >= min_silence_time`: break, sleep and
\* poll again, or TypeError when a speech frame has reset silence_started_at
WkPollSub(w) ==
    /\ wk[w].pc = "poll_sub"
    /\ IF wk[w].sil
       THEN \E nxt \in {"rec_close", "recording"} :
                wk' = Upd(w, [wk[w] EXCEPT !.pc = nxt])
       ELSE wk' = Upd(w, [wk[w] EXCEPT !.pc = "resume", !.rec = "closed",
                                       !.recFailed = TRUE, !.audio = "None",
                                       !.have = FALSE, !.sil = FALSE,
                                       !.frames = FALSE])
    /\ UNCHANGED <<voice_enabled, stream, porcupine, busy, holder, cb, ctl>>
    /\ UNCHANGED <<gateVars, recVars, engVars, routeVars, ttsVars>>

\* Mutant of WkRecClose: the guard is released as soon as recording is over,
\* before the resume step
WkRecClose_ReleaseFirst(w) ==
    /\ wk[w].pc = "rec_close"
    /\ busy' = FALSE
    /\ holder' = 0
    /\ wk' = Upd(w, [wk[w] EXCEPT !.pc = "resume", !.rec = "closed",
                                  !.audio = IF wk[w].frames THEN "nonempty" ELSE "empty",
                                  !.have = FALSE, !.sil = FALSE, !.frames = FALSE])
    /\ UNCHANGED <<voice_enabled, stream, porcupine, cb, ctl>>
    /\ UNCHANGED <<gateVars, recVars, engVars, routeVars, ttsVars>>

\* leaving the with block closes the stream; then the return value
WkRecClose(w) ==
    /\ wk[w].pc = "rec_close"
    /\ wk' = Upd(w, [wk[w] EXCEPT !.pc = "resume", !.rec = "closed",
                                  !.audio = IF wk[w].frames THEN "nonempty" ELSE "empty",
                                  !.have = FALSE, !.sil = FALSE, !.frames = FALSE])
    /\ UNCHANGED <<voice_enabled, stream, porcupine, busy, holder, cb, ctl>>
    /\ UNCHANGED <<gateVars, recVars, engVars, routeVars, ttsVars>>

\* what the resume step did: stream.start() raised, or else the state of the
\* engine's stream when start() returned
ResumeResult(r) ==
    IF r[2] THEN "raised" ELSE r[1]

\* Mutant of WkResume: the guard is released together with the microphone
WkResume_ReleaseEarly(w) ==
    /\ wk[w].pc = "resume"
    /\ busy' = FALSE
    /\ holder' = 0
    /\ \E r \in EngineStart(stream) :
        /\ stream' = r[1]
        /\ wk' = Upd(w, IF wk[w].exc
                        THEN Ended("dead")
                        ELSE [wk[w] EXCEPT !.pc = "check",
                                           !.resumed = ResumeResult(r)])
    /\ UNCHANGED <<voice_enabled, porcupine, cb, ctl>>
    /\ UNCHANGED <<gateVars, recVars, engVars, routeVars, ttsVars>>

\* finally: self.engine.start(), its exception logged; an exception pending
\* from the try block then leaves _process_wake_event
WkResume(w) ==
    /\ wk[w].pc = "resume"
    /\ \E r \in EngineStart(stream) :
        /\ stream' = r[1]
        /\ wk' = Upd(w, IF wk[w].exc
                        THEN Ended("dead")
                        ELSE [wk[w] EXCEPT !.pc = "check",
                                           !.resumed = ResumeResult(r)])
    /\ UNCHANGED <<voice_enabled, porcupine, busy, holder, cb, ctl>>
    /\ UNCHANGED <<gateVars, recVars, engVars, routeVars, ttsVars>>

\* Mutant of WkCheck: the `return` after the release is missing, so the worker
\* goes on to the second try block and its finally clause
WkCheck_NoReturn(w) ==
    /\ wk[w].pc = "check"
    /\ IF wk[w].audio \in {"None", "empty"}
       THEN /\ busy' = FALSE
            /\ holder' = 0
       ELSE UNCHANGED <<busy, holder>>
    /\ wk' = Upd(w, [wk[w] EXCEPT !.pc = "transcribe"])
    /\ UNCHANGED <<voice_enabled, stream, porcupine, cb, ctl>>
    /\ UNCHANGED <<gateVars, recVars, engVars, routeVars, ttsVars>>

\* Mutant of WkCheck: only `audio is None` is tested
WkCheck_NoSizeTest(w) ==
    /\ wk[w].pc = "check"
    /\ IF wk[w].audio = "None"
       THEN /\ busy' = FALSE
            /\ holder' = 0
            /\ wk' = Upd(w, Ended("done"))
       ELSE /\ wk' = Upd(w, [wk[w] EXCEPT !.pc = "transcribe"])
            /\ UNCHANGED <<busy, holder>>
    /\ UNCHANGED <<voice_enabled, stream, porcupine, cb, ctl>>
    /\ UNCHANGED <<gateVars, recVars, engVars, routeVars, ttsVars>>

\* `if audio is None or audio.size == 0`: release and return
WkCheck(w) ==
    /\ wk[w].pc = "check"
    /\ IF wk[w].audio \in {"None", "empty"}
       THEN /\ busy' = FALSE
            /\ holder' = 0
            /\ wk' = Upd(w, Ended("done"))
       ELSE /\ wk' = Upd(w, [wk[w] EXCEPT !.pc = "transcribe"])
            /\ UNCHANGED <<busy, holder>>
    /\ UNCHANGED <<voice_enabled, stream, porcupine, cb, ctl>>
    /\ UNCHANGED <<gateVars, recVars, engVars, routeVars, ttsVars>>

\* Mutant of WkTranscribe: the except clause goes on to the responder
WkTranscribe_RaiseAsText(w) ==
    /\ wk[w].pc = "transcribe"
    /\ \E out \in {"text", "notext", "raise"} :
        wk' = Upd(w, [wk[w] EXCEPT !.trArg = wk[w].audio, !.trOut = out,
                                   !.pc = IF out = "notext" THEN "release" ELSE "respond"])
    /\ UNCHANGED <<voice_enabled, stream, porcupine, busy, holder, cb, ctl>>
    /\ UNCHANGED <<gateVars, recVars, engVars, routeVars, ttsVars>>

\* Mutant of WkTranscribe: `if text:` is missing, handle_command is called
\* with whatever transcribe returned
WkTranscribe_NoTextTest(w) ==
    /\ wk[w].pc = "transcribe"
    /\ \E out \in {"text", "notext", "raise"} :
        wk' = Upd(w, [wk[w] EXCEPT !.trArg = wk[w].audio, !.trOut = out,
                                   !.pc = IF out = "raise" THEN "release" ELSE "respond"])
    /\ UNCHANGED <<voice_enabled, stream, porcupine, busy, holder, cb, ctl>>
    /\ UNCHANGED <<gateVars, recVars, engVars, routeVars, ttsVars>>

\* text = self.stt.transcribe(audio): text, empty text, or an exception, which
\* the except clause logs; `if text:` lets only text reach handle_command
WkTranscribe(w) ==
    /\ wk[w].pc = "transcribe"
    /\ \E out \in {"text", "notext", "raise"} :
        wk' = Upd(w, [wk[w] EXCEPT !.trArg = wk[w].audio, !.trOut = out,
                                   !.pc = IF out = "text" THEN "respond" ELSE "release"])
    /\ UNCHANGED <<voice_enabled, stream, porcupine, busy, holder, cb, ctl>>
    /\ UNCHANGED <<gateVars, recVars, engVars, routeVars, ttsVars>>

\* self.handle_command(text) returns or raises
WkRespond(w) ==
    /\ wk[w].pc = "respond"
    /\ wk' = Upd(w, [wk[w] EXCEPT !.pc = "release", !.handled = wk[w].handled + 1])
    /\ UNCHANGED <<voice_enabled, stream, porcupine, busy, holder, cb, ctl>>
    /\ UNCHANGED <<gateVars, recVars, engVars, routeVars, ttsVars>>

\* finally: self._busy.release()
WkRelease(w) ==
    /\ wk[w].pc = "release"
    /\ busy' = FALSE
    /\ holder' = 0
    /\ wk' = Upd(w, Ended("done"))
    /\ UNCHANGED <<voice_enabled, stream, porcupine, cb, ctl>>
    /\ UNCHANGED <<gateVars, recVars, engVars, routeVars, ttsVars>>

-----------------------------------------------------------------------------
(* start_voice_recognition, stop_voice_recognition and the shutdown sequence *)
(* of api_shutdown, each on a caller thread                                  *)

Goto(c, pc) == [ctl EXCEPT ![c] = pc]

\* start_voice_recognition: `if not self.voice_enabled`
StartVoiceBegin(c) ==
    /\ ctl[c] = "idle"
    /\ ~voice_enabled
    /\ ctl' = Goto(c, "sv_engine")
    /\ UNCHANGED <<voice_enabled, stream, porcupine, busy, holder, cb, wk>>
    /\ UNCHANGED <<gateVars, recVars, engVars, routeVars, ttsVars>>

\* start_voice_recognition: a fresh VoiceKeyEngine when the stream is gone; the
\* constructor may raise (no device, no detector), which leads to the except
\* clause
StartVoiceEngine(c) ==
    /\ ctl[c] = "sv_engine"
    /\ IF stream = "none"
       THEN \/ /\ stream' = "inactive"
               /\ porcupine' = TRUE
               /\ ctl' = Goto(c, "sv_start")
            \/ /\ ctl' = Goto(c, "sv_except")
               /\ UNCHANGED <<stream, porcupine>>
       ELSE /\ ctl' = Goto(c, "sv_start")
            /\ UNCHANGED <<stream, porcupine>>
    /\ UNCHANGED <<voice_enabled, busy, holder, cb, wk>>
    /\ UNCHANGED <<gateVars, recVars, engVars, routeVars, ttsVars>>

\* Mutant of StartVoiceStart: the exception of engine.start() is ignored and
\* the next statement, self.voice_enabled = True, is executed
StartVoiceStart_SetOnFail(c) ==
    /\ ctl[c] = "sv_start"
    /\ \E r \in EngineStart(stream) :
        /\ stream' = r[1]
        /\ ctl' = Goto(c, "sv_set")
    /\ UNCHANGED <<voice_enabled, porcupine, busy, holder, cb, wk>>
    /\ UNCHANGED <<gateVars, recVars, engVars, routeVars, ttsVars>>

\* start_voice_recognition: self.engine.start(); an exception leads to the
\* except clause
StartVoiceStart(c) ==
    /\ ctl[c] = "sv_start"
    /\ \E r \in EngineStart(stream) :
        /\ stream' = r[1]
        /\ ctl' = Goto(c, IF r[2] THEN "sv_except" ELSE "sv_set")
    /\ UNCHANGED <<voice_enabled, porcupine, busy, holder, cb, wk>>
    /\ UNCHANGED <<gateVars, recVars, engVars, routeVars, ttsVars>>

\* Mutant of StartVoiceExcept: the except clause tries engine.start() again
StartVoiceExcept_Retry(c) ==
    /\ ctl[c] = "sv_except"
    /\ ctl' = Goto(c, "sv_start")
    /\ UNCHANGED <<voice_enabled, stream, porcupine, busy, holder, cb, wk>>
    /\ UNCHANGED <<gateVars, recVars, engVars, routeVars, ttsVars>>

\* start_voice_recognition: `except Exception as e: logger.error(...)`, then
\* the method returns
StartVoiceExcept(c) ==
    /\ ctl[c] = "sv_except"
    /\ ctl' = Goto(c, "idle")
    /\ UNCHANGED <<voice_enabled, stream, porcupine, busy, holder, cb, wk>>
    /\ UNCHANGED <<gateVars, recVars, engVars, routeVars, ttsVars>>

\* start_voice_recognition: self.voice_enabled = True
StartVoiceSet(c) ==
    /\ ctl[c] = "sv_set"
    /\ voice_enabled' = TRUE
    /\ ctl' = Goto(c, "idle")
    /\ UNCHANGED <<stream, porcupine, busy, holder, cb, wk>>
    /\ UNCHANGED <<gateVars, recVars, engVars, routeVars, ttsVars>>

\* stop_voice_recognition: `if self.voice_enabled`
StopVoiceBegin(c) ==
    /\ ctl[c] = "idle"
    /\ voice_enabled
    /\ ctl' = Goto(c, "pv_pause")
    /\ UNCHANGED <<voice_enabled, stream, porcupine, busy, holder, cb, wk>>
    /\ UNCHANGED <<gateVars, recVars, engVars, routeVars, ttsVars>>

\* stop_voice_recognition: self.engine.pause(), returning or raising
StopVoicePause(c) ==
    /\ ctl[c] = "pv_pause"
    /\ \E r \in EnginePause(stream) : stream' = r[1]
    /\ ctl' = Goto(c, "pv_set")
    /\ UNCHANGED <<voice_enabled, porcupine, busy, holder, cb, wk>>
    /\ UNCHANGED <<gateVars, recVars, engVars, routeVars, ttsVars>>

\* stop_voice_recognition: finally: self.voice_enabled = False
StopVoiceSet(c) ==
    /\ ctl[c] = "pv_set"
    /\ voice_enabled' = FALSE
    /\ ctl' = Goto(c, "idle")
    /\ UNCHANGED <<stream, porcupine, busy, holder, cb, wk>>
    /\ UNCHANGED <<gateVars, recVars, engVars, routeVars, ttsVars>>

\* shutdown_system: controller.stop_voice_recognition(), its test
ShutdownBegin(c) ==
    /\ ctl[c] = "idle"
    /\ ctl' = Goto(c, IF voice_enabled THEN "sh_pause" ELSE "sh_stop")
    /\ UNCHANGED <<voice_enabled, stream, porcupine, busy, holder, cb, wk>>
    /\ UNCHANGED <<gateVars, recVars, engVars, routeVars, ttsVars>>

\* shutdown_system: the pause of stop_voice_recognition; its exception, after
\* the finally of stop_voice_recognition, leaves shutdown_system's try block
ShutdownPause(c) ==
    /\ ctl[c] = "sh_pause"
    /\ \E r \in EnginePause(stream) :
        /\ stream' = r[1]
        /\ ctl' = Goto(c, IF r[2] THEN "sh_set_exc" ELSE "sh_set")
    /\ UNCHANGED <<voice_enabled, porcupine, busy, holder, cb, wk>>
    /\ UNCHANGED <<gateVars, recVars, engVars, routeVars, ttsVars>>

\* shutdown_system: the finally of stop_voice_recognition
ShutdownSet(c) ==
    /\ ctl[c] \in {"sh_set", "sh_set_exc"}
    /\ voice_enabled' = FALSE
    /\ ctl' = Goto(c, IF ctl[c] = "sh_set" THEN "sh_stop" ELSE "idle")
    /\ UNCHANGED <<stream, porcupine, busy, holder, cb, wk>>
    /\ UNCHANGED <<gateVars, recVars, engVars, routeVars, ttsVars>>

\* shutdown_system: controller.engine.stop(); the detector is deleted in any
\* case; looking up the request outside its context then ends the thread
ShutdownStop(c) ==
    /\ ctl[c] = "sh_stop"
    /\ stream' \in EngineStop(stream)
    /\ porcupine' = FALSE
    /\ ctl' = Goto(c, "idle")
    /\ UNCHANGED <<voice_enabled, busy, holder, cb, wk>>
    /\ UNCHANGED <<gateVars, recVars, engVars, routeVars, ttsVars>>

-----------------------------------------------------------------------------

WakeStep(i) ==
    \/ Detect(i)
    \/ OnWakeAcquire(i)
    \/ OnWakeSpawn(i)

WorkerStep(w) ==
    \/ WkPause(w)
    \/ WkRecOpen(w)
    \/ RecFrame(w)
    \/ WkPollTimeout(w)
    \/ WkPollCheck(w)
    \/ WkPollSub(w)
    \/ WkRecClose(w)
    \/ WkResume(w)
    \/ WkCheck(w)
    \/ WkTranscribe(w)
    \/ WkRespond(w)
    \/ WkRelease(w)

ControlStep(c) ==
    \/ StartVoiceBegin(c)
    \/ StartVoiceEngine(c)
    \/ StartVoiceStart(c)
    \/ StartVoiceExcept(c)
    \/ StartVoiceSet(c)
    \/ StopVoiceBegin(c)
    \/ StopVoicePause(c)
    \/ StopVoiceSet(c)
    \/ ShutdownBegin(c)
    \/ ShutdownPause(c)
    \/ ShutdownSet(c)
    \/ ShutdownStop(c)

Next ==
    \/ \E i \in Sessions : WakeStep(i)
    \/ \E w \in Sessions : WorkerStep(w)
    \/ \E c \in Callers : ControlStep(c)

Spec == Init /\ [][Next]_vars

-----------------------------------------------------------------------------
(* The voice pipeline alone, once start_voice_recognition has returned:      *)
(* wake detections and workers, no control operation.  Threads that can     *)
(* take a step are scheduled, and the polling loop of record_until_silence  *)
(* reaches its timeout.                                                     *)

InitListening ==
    /\ voice_enabled = TRUE
    /\ stream = "active"
    /\ porcupine = TRUE
    /\ busy = FALSE
    /\ holder = 0
    /\ cb = [i \in Sessions |-> "idle"]
    /\ wk = [i \in Sessions |-> NoWorker]
    /\ ctl = [c \in Callers |-> "idle"]
    /\ GateIdle
    /\ RecLocals("idle", "closed")
    /\ EngIdle
    /\ RouteIdle
    /\ TtsIdle

VoiceNext ==
    \/ \E i \in Sessions : WakeStep(i)
    \/ \E w \in Sessions : WorkerStep(w)

Fairness ==
    /\ \A i \in Sessions : WF_vars(OnWakeAcquire(i) \/ OnWakeSpawn(i))
    /\ \A w \in Sessions : WF_vars(WorkerStep(w))
    /\ \A w \in Sessions : SF_vars(WkPollTimeout(w))

FairVoiceSpec == InitListening /\ [][VoiceNext]_vars /\ Fairness

-----------------------------------------------------------------------------
(* The wake listener against a clock, listening.  _audio_callback reads no  *)
(* clock and keeps no time of a previous detection: every frame for which   *)
(* the detector returns an index >= 0 starts a _run_callback thread.  The   *)
(* whole body of the callback is inside try / except Exception.             *)

\* time passes
GTick ==
    /\ gnow < MaxTime
    /\ gnow' = gnow + 1
    /\ UNCHANGED <<det, disp, gerr>>
    /\ UNCHANGED <<orchVars, recVars, engVars, routeVars, ttsVars>>

\* _audio_callback on a frame with result >= 0: threading.Thread(...).start()
GDetect ==
    /\ stream = "active"
    /\ porcupine
    /\ Len(det) < MaxDetections
    /\ det' = Append(det, gnow)
    /\ disp' = Append(disp, TRUE)
    /\ UNCHANGED <<gnow, gerr>>
    /\ UNCHANGED <<orchVars, recVars, engVars, routeVars, ttsVars>>

\* Mutant of GFrameRaise: no except clause; the exception leaves the callback
\* and the audio library keeps the stream running or aborts it
GFrameRaise_Escapes ==
    /\ stream = "active"
    /\ gerr' = <<gnow>>
    /\ stream' \in {"active", "inactive"}
    /\ UNCHANGED <<gnow, det, disp>>
    /\ UNCHANGED <<voice_enabled, porcupine, busy, holder, cb, wk, ctl>>
    /\ UNCHANGED <<recVars, engVars, routeVars, ttsVars>>

\* _audio_callback on a frame whose processing raises (porcupine.process
\* fails): `except Exception` logs the error and the callback returns
GFrameRaise ==
    /\ stream = "active"
    /\ gerr' = <<gnow>>
    /\ UNCHANGED <<gnow, det, disp>>
    /\ UNCHANGED <<orchVars, recVars, engVars, routeVars, ttsVars>>

GateNext ==
    \/ GTick
    \/ GDetect
    \/ GFrameRaise

GateSpec == InitListening /\ [][GateNext]_vars

-----------------------------------------------------------------------------
(* One activation of record_until_silence, frame by frame, from the moment  *)
(* the `with sd.InputStream(...)` block is entered.  The stream's thread    *)
(* runs on_audio once per frame period; the calling thread polls.  A frame  *)
(* is named by its number.  The worker's test of the returned buffer ends   *)
(* the activation.                                                          *)

RecInit ==
    /\ voice_enabled = TRUE
    /\ stream = "inactive"
    /\ porcupine = TRUE
    /\ busy = TRUE
    /\ holder = 1
    /\ cb = [i \in Sessions |-> IF i = 1 THEN "done" ELSE "idle"]
    /\ wk = [i \in Sessions |->
                IF i = 1
                THEN [NoWorker EXCEPT !.pc = "recording", !.paused = TRUE,
                                      !.rec = "active"]
                ELSE NoWorker]
    /\ ctl = [c \in Callers |-> "idle"]
    /\ GateIdle
    /\ RecLocals("loop", "active")
    /\ EngIdle
    /\ RouteIdle
    /\ TtsIdle

\* Mutant of PadAppend: a full buffer drops the frame just appended, pop()
\* instead of pop(0)
PadAppend_EvictNewest(pad, j) ==
    IF have_detected_speech THEN pad
    ELSE IF Len(pad) + 1 > PrePadFrames THEN pad
    ELSE Append(pad, j)

\* on_audio, `if not have_detected_speech: pad_buffer.append(mono)` and the
\* pop(0) that keeps at most _pre_pad_frames frames
PadAppend(pad, j) ==
    IF have_detected_speech THEN pad
    ELSE IF Len(pad) + 1 > PrePadFrames THEN Append(Tail(pad), j)
    ELSE Append(pad, j)

\* the stream's thread can run on_audio for another frame
FrameDue ==
    /\ rpc \in {"loop", "sub"}
    /\ rstream = "active"
    /\ rclock < MaxClock

\* on_audio for a frame the classifier calls speech
RFrameSpeech ==
    /\ FrameDue
    /\ LET j == Len(rcls) + 1
           pad == PadAppend(pad_buffer, j)
       IN /\ rcls' = Append(rcls, "speech")
          /\ audio_frames' =
                Append(IF have_detected_speech THEN audio_frames
                       ELSE audio_frames \o pad, j)
          /\ pad_buffer' = IF have_detected_speech THEN pad ELSE << >>
    /\ have_detected_speech' = TRUE
    /\ silence_started_at' = << >>
    /\ rclock' = rclock + 1
    /\ UNCHANGED <<rpc, rstream, rnow, exitBy, result>>
    /\ UNCHANGED <<orchVars, gateVars, engVars, routeVars, ttsVars>>

\* Mutant of RFrameSilence: a non-speech frame is kept whether or not speech
\* was detected before
RFrameSilence_KeepAll ==
    /\ FrameDue
    /\ LET j == Len(rcls) + 1
       IN /\ rcls' = Append(rcls, "silence")
          /\ pad_buffer' = PadAppend(pad_buffer, j)
          /\ audio_frames' = Append(audio_frames, j)
          /\ silence_started_at' =
                IF have_detected_speech /\ silence_started_at = << >>
                THEN <<rclock + 1>> ELSE silence_started_at
    /\ rclock' = rclock + 1
    /\ UNCHANGED <<rpc, rstream, have_detected_speech, rnow, exitBy, result>>
    /\ UNCHANGED <<orchVars, gateVars, engVars, routeVars, ttsVars>>

\* Mutant of RFrameSilence: every non-speech frame after speech sets
\* silence_started_at anew
RFrameSilence_Restart ==
    /\ FrameDue
    /\ LET j == Len(rcls) + 1
       IN /\ rcls' = Append(rcls, "silence")
          /\ pad_buffer' = PadAppend(pad_buffer, j)
          /\ audio_frames' =
                IF have_detected_speech THEN Append(audio_frames, j)
                ELSE audio_frames
          /\ silence_started_at' =
                IF have_detected_speech
                THEN <<rclock + 1>> ELSE silence_started_at
    /\ rclock' = rclock + 1
    /\ UNCHANGED <<rpc, rstream, have_detected_speech, rnow, exitBy, result>>
    /\ UNCHANGED <<orchVars, gateVars, engVars, routeVars, ttsVars>>

\* on_audio for a frame the classifier calls non-speech
RFrameSilence ==
    /\ FrameDue
    /\ LET j == Len(rcls) + 1
       IN /\ rcls' = Append(rcls, "silence")
          /\ pad_buffer' = PadAppend(pad_buffer, j)
          /\ audio_frames' =
                IF have_detected_speech THEN Append(audio_frames, j)
                ELSE audio_frames
          /\ silence_started_at' =
                IF have_detected_speech /\ silence_started_at = << >>
                THEN <<rclock + 1>> ELSE silence_started_at
    /\ rclock' = rclock + 1
    /\ UNCHANGED <<rpc, rstream, have_detected_speech, rnow, exitBy, result>>
    /\ UNCHANGED <<orchVars, gateVars, engVars, routeVars, ttsVars>>

\* on_audio when _vad_is_speech raises, after the frame went to pad_buffer;
\* the audio library then keeps the stream running or aborts it
RFrameRaise ==
    /\ FrameDue
    /\ rcls' = Append(rcls, "raise")
    /\ pad_buffer' = PadAppend(pad_buffer, Len(rcls) + 1)
    /\ rstream' \in {"active", "aborted"}
    /\ rclock' = rclock + 1
    /\ UNCHANGED <<rpc, audio_frames, have_detected_speech, silence_started_at,
                   rnow, exitBy, result>>
    /\ UNCHANGED <<orchVars, gateVars, engVars, routeVars, ttsVars>>

\* the device stops delivering frames; no callback, no exception
RStall ==
    /\ FrameDue
    /\ rstream' = "stalled"
    /\ UNCHANGED <<rpc, rclock, rcls, pad_buffer, audio_frames,
                   have_detected_speech, silence_started_at, rnow, exitBy, result>>
    /\ UNCHANGED <<orchVars, gateVars, engVars, routeVars, ttsVars>>

\* a frame period passes without a callback
RTick ==
    /\ rpc \in {"loop", "sub"}
    /\ rstream \in {"stalled", "aborted"}
    /\ rclock < MaxClock
    /\ rclock' = rclock + 1
    /\ UNCHANGED <<rpc, rstream, rcls, pad_buffer, audio_frames,
                   have_detected_speech, silence_started_at, rnow, exitBy, result>>
    /\ UNCHANGED <<orchVars, gateVars, engVars, routeVars, ttsVars>>

\* Mutant of RPoll: the timeout test is `>=`
RPoll_TimeoutAtBound ==
    /\ rpc = "loop"
    /\ rnow' = rclock
    /\ IF rclock >= MaxRecordFrames
       THEN rpc' = "close" /\ exitBy' = "timeout"
       ELSE /\ rpc' = IF have_detected_speech /\ silence_started_at # << >>
                      THEN "sub" ELSE "loop"
            /\ UNCHANGED exitBy
    /\ UNCHANGED <<rclock, rstream, rcls, pad_buffer, audio_frames,
                   have_detected_speech, silence_started_at, result>>
    /\ UNCHANGED <<orchVars, gateVars, engVars, routeVars, ttsVars>>

\* Mutant of RPoll: the timeout is tested only while no speech was detected
RPoll_TimeoutBeforeSpeech ==
    /\ rpc = "loop"
    /\ rnow' = rclock
    /\ IF rclock > MaxRecordFrames /\ ~have_detected_speech
       THEN rpc' = "close" /\ exitBy' = "timeout"
       ELSE /\ rpc' = IF have_detected_speech /\ silence_started_at # << >>
                      THEN "sub" ELSE "loop"
            /\ UNCHANGED exitBy
    /\ UNCHANGED <<rclock, rstream, rcls, pad_buffer, audio_frames,
                   have_detected_speech, silence_started_at, result>>
    /\ UNCHANGED <<orchVars, gateVars, engVars, routeVars, ttsVars>>

\* one pass of the polling loop: now = time.time(); the timeout test (rclock
\* is the time since start_time); `have_detected_speech and silence_started_at
\* is not None`; else time.sleep(0.02)
RPoll ==
    /\ rpc = "loop"
    /\ rnow' = rclock
    /\ IF rclock > MaxRecordFrames
       THEN rpc' = "close" /\ exitBy' = "timeout"
       ELSE /\ rpc' = IF have_detected_speech /\ silence_started_at # << >>
                      THEN "sub" ELSE "loop"
            /\ UNCHANGED exitBy
    /\ UNCHANGED <<rclock, rstream, rcls, pad_buffer, audio_frames,
                   have_detected_speech, silence_started_at, result>>
    /\ UNCHANGED <<orchVars, gateVars, engVars, routeVars, ttsVars>>

\* `now - silence_started_at >= min_silence_time` with the `now` read before:
\* break, or sleep and poll again; TypeError when a speech frame has set
\* silence_started_at to None since the test before, which leaves the with
\* block and record_until_silence
RPollSub ==
    /\ rpc = "sub"
    /\ IF silence_started_at = << >>
       THEN /\ rpc' = "raised"
            /\ exitBy' = "error"
            /\ rstream' = "closed"
       ELSE /\ IF rnow >= silence_started_at[1] + MinSilenceFrames
               THEN rpc' = "close" /\ exitBy' = "silence"
               ELSE rpc' = "loop" /\ UNCHANGED exitBy
            /\ UNCHANGED rstream
    /\ UNCHANGED <<rclock, rcls, pad_buffer, audio_frames,
                   have_detected_speech, silence_started_at, rnow, result>>
    /\ UNCHANGED <<orchVars, gateVars, engVars, routeVars, ttsVars>>

\* Mutant of RClose: after the timeout exit the frames are dropped and an
\* empty array is returned
RClose_EmptyOnTimeout ==
    /\ rpc = "close"
    /\ rstream' = "closed"
    /\ result' = IF exitBy = "timeout" THEN << >> ELSE audio_frames
    /\ rpc' = "returned"
    /\ UNCHANGED <<rclock, rcls, pad_buffer, audio_frames,
                   have_detected_speech, silence_started_at, rnow, exitBy>>
    /\ UNCHANGED <<orchVars, gateVars, engVars, routeVars, ttsVars>>

\* leaving the with block closes the stream; `if not audio_frames` returns an
\* empty array, else the frames are concatenated and returned
RClose ==
    /\ rpc = "close"
    /\ rstream' = "closed"
    /\ result' = audio_frames
    /\ rpc' = "returned"
    /\ UNCHANGED <<rclock, rcls, pad_buffer, audio_frames,
                   have_detected_speech, silence_started_at, rnow, exitBy>>
    /\ UNCHANGED <<orchVars, gateVars, engVars, routeVars, ttsVars>>

\* the worker: audio is None after an exception; `if audio is None or
\* audio.size == 0` releases the guard and returns, else transcribe is called
RWorkerCheck ==
    /\ rpc \in {"returned", "raised"}
    /\ rpc' = IF rpc = "raised" \/ result = << >> THEN "released" ELSE "transcribe"
    /\ UNCHANGED <<rclock, rstream, rcls, pad_buffer, audio_frames,
                   have_detected_speech, silence_started_at, rnow, exitBy, result>>
    /\ UNCHANGED <<orchVars, gateVars, engVars, routeVars, ttsVars>>

\* a frame period passes, with or without a frame
RTimePasses ==
    \/ RFrameSpeech
    \/ RFrameSilence
    \/ RFrameRaise
    \/ RTick

\* a step of the thread that called record_until_silence
RThread ==
    \/ RPoll
    \/ RPollSub
    \/ RClose
    \/ RWorkerCheck

RecNext ==
    \/ RTimePasses
    \/ RStall
    \/ RThread

RecSpec == RecInit /\ [][RecNext]_vars

\* time passes and the calling thread is scheduled
FairRecSpec == RecSpec /\ WF_vars(RTimePasses) /\ WF_vars(RThread)

-----------------------------------------------------------------------------
(* The engine's start() and pause() called one after the other from one     *)
(* thread, on an engine in any of its states: stream gone (after stop()),   *)
(* stream inactive, stream active.                                          *)

EngInit ==
    /\ voice_enabled = FALSE
    /\ stream \in {"none", "inactive", "active"}
    /\ porcupine = (stream # "none")
    /\ busy = FALSE
    /\ holder = 0
    /\ cb = [i \in Sessions |-> "idle"]
    /\ wk = [i \in Sessions |-> NoWorker]
    /\ ctl = [c \in Callers |-> "idle"]
    /\ GateIdle
    /\ RecLocals("idle", "closed")
    /\ EngIdle
    /\ RouteIdle
    /\ TtsIdle

\* what a call did to the stream
Called(name, r) ==
    [call |-> name, before |-> stream, after |-> r[1], raised |-> r[2], ops |-> r[3]]

\* engine.start()
EngCallStart ==
    /\ Len(elog) < MaxCalls
    /\ \E r \in EngineStart(stream) :
        /\ stream' = r[1]
        /\ elog' = Append(elog, Called("start", r))
    /\ UNCHANGED <<voice_enabled, porcupine, busy, holder, cb, wk, ctl>>
    /\ UNCHANGED <<gateVars, recVars, routeVars, ttsVars>>

\* engine.pause()
EngCallPause ==
    /\ Len(elog) < MaxCalls
    /\ \E r \in EnginePause(stream) :
        /\ stream' = r[1]
        /\ elog' = Append(elog, Called("pause", r))
    /\ UNCHANGED <<voice_enabled, porcupine, busy, holder, cb, wk, ctl>>
    /\ UNCHANGED <<gateVars, recVars, routeVars, ttsVars>>

EngNext ==
    \/ EngCallStart
    \/ EngCallPause

EngSpec == EngInit /\ [][EngNext]_vars

-----------------------------------------------------------------------------
(* Properties                                                               *)

\* a worker thread that is running _process_wake_event
InFlight(w) == wk[w].pc \notin {"none", "done", "dead"}

\* C1. Single-flight: at most one worker is inside its record / transcribe /
\* handle_command pipeline at any time, and a wake event that found _busy held
\* has no worker.
C1_SingleFlight ==
    /\ Cardinality({w \in Sessions : InFlight(w)}) <= 1
    /\ \A i \in Sessions : cb[i] = "dropped" => ~InFlight(i)

C1_Witness ==
    \E w, i \in Sessions : wk[w].pc = "recording" /\ cb[i] = "dropped"

\* C2. Whenever a worker thread has terminated, the guard it acquired is no
\* longer held.
C2_GuardReleasedOnExit ==
    \A w \in Sessions : wk[w].pc \in {"done", "dead"} => holder # w

\* C3. Microphone exclusivity: the wake listener's stream and a recorder's
\* input stream are never active at the same time.
C3_MicExclusive ==
    \A w \in Sessions : ~(stream = "active" /\ wk[w].rec = "active")

C5_NoStuckBusy ==
    \A i \in Sessions : (holder = i) ~> (~busy /\ stream \in {"active", "inactive"})

\* C6. Dropped, not queued: a wake event that found the guard held stays
\* dropped and never gets a worker, and the sessions started never outnumber
\* the wake events that found the guard free.
C6_DroppedNotQueued ==
    /\ [](Cardinality({w \in Sessions : wk[w].pc # "none"})
            <= Cardinality({i \in Sessions : cb[i] \in {"spawn", "done"}}))
    /\ [][\A i \in Sessions :
            cb[i] = "dropped" => cb'[i] = "dropped" /\ wk'[i].pc = "none"]_vars

C6_Witness ==
    \E i, j \in Sessions :
        cb[i] = "dropped" /\ wk[i].pc = "none" /\ wk[j].pc = "done" /\ ~busy

\* C7. The guard stays held, by the session that acquired it, from acceptance
\* until transcribe and handle_command have returned; a wake event that
\* reaches the guard while a command is being transcribed or answered is dropped.
C7_GuardHeldAcrossPipeline ==
    /\ [](\A w \in Sessions :
            (cb[w] = "spawn" \/ InFlight(w)) => busy /\ holder = w)
    /\ [][\A i, w \in Sessions :
            (cb[i] = "on_wake" /\ cb'[i] # "on_wake"
                /\ wk[w].pc \in {"transcribe", "respond"})
            => cb'[i] = "dropped"]_vars

C7_Witness ==
    \E i, w \in Sessions :
        /\ cb[i] = "on_wake"
        /\ wk[w].pc \in {"transcribe", "respond"}
        /\ wk[w].resumed = "active"
        /\ stream = "active"

\* C8. A worker releases the guard only after its resume step, and no wake
\* event is accepted while a worker has paused the wake listener and not yet
\* run its resume step.
C8_ResumeBeforeRelease ==
    [][/\ \A w \in Sessions :
            (holder = w /\ holder' # w) => wk[w].resumed # "unset"
       /\ (~busy /\ busy') =>
            \A w \in Sessions : ~(wk[w].paused /\ wk[w].resumed = "unset")]_vars

C8_Witness ==
    \E w, i \in Sessions :
        wk[w].pc = "done" /\ cb[i] = "spawn" /\ holder = i

\* C9. Within a worker run engine.pause() has returned before the recorder's
\* stream is opened, and the recorder's stream is closed when engine.start()
\* is called.
C9_StrictOrder ==
    /\ [](\A w \in Sessions :
            wk[w].rec # "closed" => wk[w].paused /\ wk[w].resumed = "unset")
    /\ [][\A w \in Sessions :
            (wk[w].pc = "resume" /\ wk'[w].pc # "resume") => wk[w].rec = "closed"]_vars

C9_Witness ==
    \E w \in Sessions :
        wk[w].pc = "check" /\ wk[w].paused /\ wk[w].audio = "nonempty"
            /\ wk[w].resumed = "active"

\* C10. No-speech short-circuit: transcribe is never called with an empty
\* buffer or None, and a worker whose recording gave an empty buffer or None
\* only resumes, tests the buffer and returns.
C10_NoSpeechShortCircuit ==
    \A w \in Sessions :
        /\ wk[w].trArg \in {"unset", "nonempty"}
        /\ wk[w].audio \in {"None", "empty"} =>
            /\ wk[w].pc \in {"resume", "check"}
            /\ wk[w].trArg = "unset"
            /\ wk[w].handled = 0

C10_Witness ==
    \E w \in Sessions : wk[w].pc = "check" /\ wk[w].audio = "empty"

\* C11. When record_until_silence raises, the worker catches the exception
\* (audio becomes None, nothing stays pending), calls neither transcribe nor
\* handle_command, and ends by returning with the guard still its own until
\* then.
C11_RecordingErrorCaught ==
    /\ [](\A w \in Sessions :
            wk[w].audio = "None" =>
                /\ wk[w].pc \in {"resume", "check"}
                /\ ~wk[w].exc
                /\ wk[w].trArg = "unset" /\ wk[w].trOut = "unset"
                /\ wk[w].handled = 0)
    /\ [][\A w \in Sessions :
            /\ (wk[w].pc \in {"rec_open", "recording", "poll_sub"}
                    /\ wk'[w].pc = "resume")
                => (wk'[w].audio = "None" /\ ~wk'[w].exc)
            /\ wk[w].audio = "None" => wk'[w].pc \in {"resume", "check", "done"}]_vars

C11_Witness ==
    \E w \in Sessions :
        wk[w].audio = "None" /\ wk[w].pc = "check" /\ wk[w].recFailed

\* C12. When transcribe raises, the worker does not call handle_command, no
\* exception is pending in it, and its next step returns with the guard
\* released.
C12_TranscribeErrorNoText ==
    /\ [](\A w \in Sessions :
            wk[w].trOut = "raise" =>
                /\ wk[w].pc = "release"
                /\ wk[w].handled = 0
                /\ ~wk[w].exc
                /\ busy /\ holder = w)
    /\ [][\A w \in Sessions :
            (wk[w].trOut = "raise" /\ wk'[w] # wk[w])
                => (wk'[w].pc = "done" /\ ~busy' /\ holder' # w)]_vars

C12_Witness ==
    \E w \in Sessions :
        wk[w].trOut = "raise" /\ wk[w].pc = "release" /\ wk[w].trArg = "nonempty"

\* C13. handle_command is called once for a session whose transcription
\* returned text and not at all for one whose transcription returned no text
\* or raised; no session calls it twice; a wake event has a worker exactly
\* when it was accepted and its thread started, and a worker that has ended
\* is not run again.
C13_HandledExactlyOnce ==
    /\ [](\A w \in Sessions :
            /\ wk[w].handled <= 1
            /\ wk[w].pc = "respond" => (wk[w].trOut = "text" /\ wk[w].handled = 0)
            /\ wk[w].pc = "release" => (wk[w].handled = 1 <=> wk[w].trOut = "text")
            /\ wk[w].trOut \in {"notext", "raise"} => wk[w].handled = 0
            /\ wk[w].pc # "none" <=> cb[w] = "done")
    /\ [][\A w \in Sessions :
            /\ wk[w].pc \in {"done", "dead"} => wk'[w] = wk[w]
            /\ (wk[w].pc = "release" /\ wk'[w].pc = "done")
                => (wk[w].handled = 1 <=> wk[w].trOut = "text")]_vars

C13_Witness ==
    \E w \in Sessions :
        wk[w].pc = "release" /\ wk[w].handled = 1 /\ wk[w].trOut = "text"

\* C14. Debounce: of two successive wake detections less than cooldown_seconds
\* apart, the first of them dispatched, the second is not dispatched; a
\* detection at least cooldown_seconds after the one before it is dispatched.
C14_Debounce ==
    \A j \in 1..(Len(det) - 1) :
        IF det[j + 1] - det[j] < CooldownTicks
        THEN disp[j] => ~disp[j + 1]
        ELSE disp[j + 1]

\* C15. The cooldown is measured from the last accepted detection: a detection
\* is dispatched exactly when every earlier dispatched detection lies at least
\* cooldown_seconds back (detections at 0.0, 0.5, 1.2 with cooldown 1.0:
\* dispatched, not dispatched, dispatched).
C15_RejectedChangesNothing ==
    \A j \in 1..Len(det) :
        disp[j] <=> (\A i \in 1..(j - 1) :
                        disp[i] => det[j] - det[i] >= CooldownTicks)

\* C16. Endpointing: when the frames delivered were k non-speech frames, then
\* m >= 1 speech frames, then at least min_silence worth of non-speech frames,
\* and the loop was left by the silence test, the returned buffer is one
\* unbroken run of frames, each once: it starts at most _pre_pad_frames frames
\* before the first speech frame and runs through the speech frames to the
\* last trailing frame.
C16_Endpointing ==
    \A k \in 0..Len(rcls), m \in 1..Len(rcls) :
        (/\ rpc = "returned" /\ exitBy = "silence"
         /\ k + m + MinSilenceFrames <= Len(rcls)
         /\ \A j \in 1..Len(rcls) :
                rcls[j] = IF j > k /\ j <= k + m THEN "speech" ELSE "silence")
        => /\ Len(result) >= m
           /\ \A i \in 1..(Len(result) - 1) : result[i + 1] = result[i] + 1
           /\ result[1] <= k + 1
           /\ result[1] + PrePadFrames >= k + 1
           /\ result[Len(result)] = Len(rcls)

\* C17. Hard timeout: when every frame delivered was classified non-speech,
\* the polling loop is left only by the timeout test, on a poll that read an
\* elapsed time above max_record_seconds; the buffer returned is empty and the
\* worker does not go on to transcribe.
C17_HardTimeout ==
    (/\ rpc \in {"close", "returned", "raised", "released", "transcribe"}
     /\ \A j \in 1..Len(rcls) : rcls[j] = "silence")
    => /\ exitBy = "timeout"
       /\ rnow > MaxRecordFrames
       /\ result = << >>
       /\ audio_frames = << >>
       /\ rpc \notin {"raised", "transcribe"}

C17_Witness ==
    /\ rpc = "released"
    /\ exitBy = "timeout"
    /\ Len(rcls) = MaxClock
    /\ \A j \in 1..Len(rcls) : rcls[j] = "silence"

\* C18. Recorder termination: whatever the classifier does, and whether or not
\* frames keep coming, record_until_silence returns or raises; a poll that
\* starts after the elapsed time has passed max_record_seconds leaves the loop.
C18_RecorderTerminates ==
    /\ <>(rpc \in {"returned", "raised", "released", "transcribe"})
    /\ [][(/\ rpc = "loop"
           /\ rclock > MaxRecordFrames
           /\ rclock' = rclock /\ rstream' = rstream)
          => (rpc' = "close" /\ exitBy' = "timeout")]_vars

C18_Witness ==
    /\ rpc = "returned"
    /\ exitBy = "timeout"
    /\ Len(rcls) = MaxClock
    /\ \A j \in 1..Len(rcls) : rcls[j] = "speech"

\* C19. audio_frames is non-empty exactly when have_detected_speech is true,
\* and the buffer record_until_silence returns is empty exactly when no frame
\* was classified as speech.
C19_EmptyIffNoSpeech ==
    /\ (audio_frames # << >>) <=> have_detected_speech
    /\ (rpc \in {"returned", "released", "transcribe"} /\ exitBy # "error")
        => ((result = << >>) <=> (\A j \in 1..Len(rcls) : rcls[j] # "speech"))

C19_Witness ==
    /\ rpc = "returned"
    /\ result # << >>
    /\ \E j \in 1..Len(rcls) :
            rcls[j] = "silence" /\ j \notin {result[i] : i \in 1..Len(result)}

\* C20. Idempotence: a start() that follows a start() which returned, and a
\* pause() that follows a pause() which returned, returns with the stream as
\* the first call left it and without calling the stream; start() on an
\* active stream and pause() on an inactive stream call no stream operation.
C20_Idempotent ==
    /\ \A j \in 1..(Len(elog) - 1) :
            (elog[j].call = elog[j + 1].call /\ ~elog[j].raised)
            => /\ elog[j + 1].after = elog[j].after
               /\ elog[j + 1].ops = 0
               /\ ~elog[j + 1].raised
    /\ \A j \in 1..Len(elog) :
            /\ (elog[j].call = "start" /\ elog[j].before = "active")
                => (elog[j].ops = 0 /\ elog[j].after = "active")
            /\ (elog[j].call = "pause" /\ elog[j].before = "inactive")
                => (elog[j].ops = 0 /\ elog[j].after = "inactive")

C20_Witness ==
    \E j \in 1..(Len(elog) - 2) :
        /\ elog[j].call = "pause" /\ elog[j + 1].call = "pause"
        /\ elog[j].before = "active" /\ elog[j].after = "inactive"
        /\ ~elog[j].raised
        /\ elog[j + 2].call = "start" /\ elog[j + 2].after = "active"

-----------------------------------------------------------------------------
(* CommandRouter: add_internal and route. A text is a short string over     *)
(* Chars, one letter in both cases; a pattern is one literal character,     *)
(* compiled with or without re.IGNORECASE; a handler returns a value made   *)
(* of its name and its argument.                                            *)

Chars == {"a", "A"}

Texts == UNION {[1..n -> Chars] : n \in 0..MaxTextLen}

Handlers == {"h1", "h2"}

\* str.lower on one character, as case-insensitive matching folds it
Lower(c) == IF c = "A" THEN "a" ELSE c

\* cmd.pattern.search(text): the pattern matches somewhere in the text
Search(pattern, text) ==
    \E n \in 1..Len(text) :
        IF pattern.icase THEN Lower(pattern.ch) = Lower(text[n])
                         ELSE pattern.ch = text[n]

\* cmd.handler(text)
Handle(handler, text) == <<handler, text>>

RECURSIVE Route_LastMatch(_, _, _)
\* Mutant of Route: the loop goes on after a match, so the last matching
\* command wins
Route_LastMatch(cmds, k, text) ==
    IF k > Len(cmds)
    THEN [out |-> <<"llm", text>>, calls |-> << >>]
    ELSE LET later == Route_LastMatch(cmds, k + 1, text)
         IN  IF later.calls # << >> \/ ~Search(cmds[k].pattern, text)
             THEN later
             ELSE [out |-> <<"internal", Handle(cmds[k].handler, text)>>,
                   calls |-> << <<k, text>> >>]

RECURSIVE Route(_, _, _)
\* route, from the k-th command on: `for cmd in self._commands: if
\* cmd.pattern.search(text): return ("internal", cmd.handler(text))`, and
\* `return ("llm", text)` after the loop; calls lists the handler calls made
Route(cmds, k, text) ==
    IF k > Len(cmds)
    THEN [out |-> <<"llm", text>>, calls |-> << >>]
    ELSE IF Search(cmds[k].pattern, text)
         THEN [out |-> <<"internal", Handle(cmds[k].handler, text)>>,
               calls |-> << <<k, text>> >>]
         ELSE Route(cmds, k + 1, text)

\* add_internal: a str is compiled with re.IGNORECASE, a compiled pattern is
\* taken with the flags it has; the command is appended
AddInternal ==
    /\ Len(commands) < MaxCommands
    /\ \E ch \in Chars, isStr \in BOOLEAN, flag \in BOOLEAN, h \in Handlers :
        LET regex == [ch |-> ch, icase |-> IF isStr THEN TRUE ELSE flag]
        IN  commands' = Append(commands, [pattern |-> regex, handler |-> h])
    /\ UNCHANGED routed
    /\ UNCHANGED <<orchVars, gateVars, recVars, engVars, ttsVars>>

\* a call of route(text)
RouteCall ==
    /\ \E text \in Texts :
        LET r == Route(commands, 1, text)
        IN  routed' = [n |-> Len(commands), text |-> text,
                       out |-> r.out, calls |-> r.calls]
    /\ UNCHANGED commands
    /\ UNCHANGED <<orchVars, gateVars, recVars, engVars, ttsVars>>

RouteNext ==
    \/ AddInternal
    \/ RouteCall

RouteSpec == Init /\ [][RouteNext]_vars

-----------------------------------------------------------------------------
(* TTSPlayer.speak, called by several threads on one player. A thread ends  *)
(* in "done" (returned after playback or after an early return), "failed"   *)
(* (returned after the except clause) or "raised" (left by an exception).   *)

Speakers == Sessions

Inside == {"generate", "play", "except", "exit_ok", "exit_err"}

SpkGoto(t, pc) == [spk EXCEPT ![t].pc = pc]

\* the player after construction: the model loaded, or None when loading failed
TtsInit ==
    /\ voice_enabled = FALSE
    /\ stream = "inactive"
    /\ porcupine = TRUE
    /\ busy = FALSE
    /\ holder = 0
    /\ cb = [i \in Sessions |-> "idle"]
    /\ wk = [i \in Sessions |-> NoWorker]
    /\ ctl = [c \in Callers |-> "idle"]
    /\ GateIdle
    /\ RecLocals("idle", "closed")
    /\ EngIdle
    /\ RouteIdle
    /\ spk = [t \in Speakers |-> NoSpeaker]
    /\ tlock = 0
    /\ tmodel \in BOOLEAN
    /\ tts_enabled = TRUE

\* a thread calls speak(text), for the first time or again
SpeakCall(t) ==
    /\ spk[t].pc \in {"idle", "done", "failed"}
    /\ \E text \in {"", "text"} : spk' = [spk EXCEPT ![t] = [pc |-> "called", text |-> text]]
    /\ UNCHANGED <<tlock, tmodel, tts_enabled>>
    /\ UNCHANGED <<orchVars, gateVars, recVars, engVars, routeVars>>

\* `if not text: return` and `if self.model is None: return`
SpeakCheck(t) ==
    /\ spk[t].pc = "called"
    /\ spk' = SpkGoto(t, IF spk[t].text = "" \/ ~tmodel THEN "done" ELSE "wait")
    /\ UNCHANGED <<tlock, tmodel, tts_enabled>>
    /\ UNCHANGED <<orchVars, gateVars, recVars, engVars, routeVars>>

\* Mutant of SpeakAcquire: the with statement does not wait for the lock
SpeakAcquire_NoWait(t) ==
    /\ spk[t].pc = "wait"
    /\ tlock' = t
    /\ spk' = SpkGoto(t, "generate")
    /\ UNCHANGED <<tmodel, tts_enabled>>
    /\ UNCHANGED <<orchVars, gateVars, recVars, engVars, routeVars>>

\* `with self._lock:` blocks until the lock is free and takes it
SpeakAcquire(t) ==
    /\ spk[t].pc = "wait"
    /\ tlock = 0
    /\ tlock' = t
    /\ spk' = SpkGoto(t, "generate")
    /\ UNCHANGED <<tmodel, tts_enabled>>
    /\ UNCHANGED <<orchVars, gateVars, recVars, engVars, routeVars>>

\* self.model.generate(...) and the conversion to a float32 array: done, or
\* an exception, which the except clause takes
SpeakGenerate(t) ==
    /\ spk[t].pc = "generate"
    /\ \E pc \in {"play", "except"} : spk' = SpkGoto(t, pc)
    /\ UNCHANGED <<tlock, tmodel, tts_enabled>>
    /\ UNCHANGED <<orchVars, gateVars, recVars, engVars, routeVars>>

\* sd.stop(); sd.play(audio, sr); sd.wait(): played to the end, or an exception
SpeakPlay(t) ==
    /\ spk[t].pc = "play"
    /\ \E pc \in {"exit_ok", "except"} : spk' = SpkGoto(t, pc)
    /\ UNCHANGED <<tlock, tmodel, tts_enabled>>
    /\ UNCHANGED <<orchVars, gateVars, recVars, engVars, routeVars>>

\* `except Exception as e: logger.error(...)`
SpeakExcept(t) ==
    /\ spk[t].pc = "except"
    /\ spk' = SpkGoto(t, "exit_err")
    /\ UNCHANGED <<tlock, tmodel, tts_enabled>>
    /\ UNCHANGED <<orchVars, gateVars, recVars, engVars, routeVars>>

\* leaving the with block releases the lock; speak returns
SpeakExit(t) ==
    /\ spk[t].pc \in {"exit_ok", "exit_err"}
    /\ tlock' = 0
    /\ spk' = SpkGoto(t, IF spk[t].pc = "exit_ok" THEN "done" ELSE "failed")
    /\ UNCHANGED <<tmodel, tts_enabled>>
    /\ UNCHANGED <<orchVars, gateVars, recVars, engVars, routeVars>>

SpeakStep(t) ==
    \/ SpeakCheck(t)
    \/ SpeakAcquire(t)
    \/ SpeakGenerate(t)
    \/ SpeakPlay(t)
    \/ SpeakExcept(t)
    \/ SpeakExit(t)

TtsNext ==
    \E t \in Speakers :
        \/ SpeakCall(t)
        \/ SpeakStep(t)

TtsSpec == TtsInit /\ [][TtsNext]_vars

-----------------------------------------------------------------------------
(* The worker's reply: handle_command with the speaker thread it starts,    *)
(* next to the wake listener and the rest of the worker. Speaker thread w   *)
(* is the one handle_command starts for session w.                          *)

\* handle_command(text), called by worker w: the router's handler or the
\* language model gives a response, empty or not, or raises; `if response and
\* self.tts_enabled` starts a daemon thread on self.tts.speak(response); the
\* method returns without waiting for it
HandleCommand(w) ==
    /\ wk[w].pc = "respond"
    /\ wk' = Upd(w, [wk[w] EXCEPT !.pc = "release", !.handled = wk[w].handled + 1])
    /\ \E response \in {"", "text", "raise"} :
        spk' = IF response = "text" /\ tts_enabled
               THEN [spk EXCEPT ![w] = [pc |-> "called", text |-> response]]
               ELSE spk
    /\ UNCHANGED <<tlock, tmodel, tts_enabled>>
    /\ UNCHANGED <<voice_enabled, stream, porcupine, busy, holder, cb, ctl>>
    /\ UNCHANGED <<gateVars, recVars, engVars, routeVars>>

\* api_toggle_tts: controller.tts_enabled = not controller.tts_enabled
ToggleTts ==
    /\ tts_enabled' = ~tts_enabled
    /\ UNCHANGED <<spk, tlock, tmodel>>
    /\ UNCHANGED <<orchVars, gateVars, recVars, engVars, routeVars>>

ReplyWorkerStep(w) ==
    \/ WkPause(w)
    \/ WkRecOpen(w)
    \/ RecFrame(w)
    \/ WkPollTimeout(w)
    \/ WkPollCheck(w)
    \/ WkPollSub(w)
    \/ WkRecClose(w)
    \/ WkResume(w)
    \/ WkCheck(w)
    \/ WkTranscribe(w)
    \/ HandleCommand(w)
    \/ WkRelease(w)

ReplyNext ==
    \/ \E i \in Sessions : WakeStep(i)
    \/ \E w \in Sessions : ReplyWorkerStep(w)
    \/ \E t \in Speakers : SpeakStep(t)
    \/ ToggleTts

ReplySpec == InitListening /\ [][ReplyNext]_vars

-----------------------------------------------------------------------------
\* C21. Paused versus decommissioned: the stream of an engine that stop() was
\* called on (its detector is deleted) is not active; it takes a fresh engine
\* (a detector again) for the stream to be active.
C21_StoppedStaysInactive ==
    ~porcupine => stream # "active"

C23_DetectorErrorCaught ==
    /\ [][gerr' # gerr => UNCHANGED <<det, disp, stream, cb>>]_vars
    /\ [](gerr # << >> => stream = "active")

C23_Witness ==
    /\ gerr # << >>
    /\ \E j \in 1..Len(det) : det[j] > gerr[1] /\ disp[j]

\* C24. A frame on which the classifier raises is treated as a non-speech
\* frame: the recorder's stream is not aborted by it, and after speech onset
\* the frame is captured like any non-speech frame.
C24_ClassifierErrorAsNonSpeech ==
    /\ rstream # "aborted"
    /\ \A j \in 1..Len(rcls) :
            (rcls[j] = "raise" /\ \E i \in 1..(j - 1) : rcls[i] = "speech")
            => \E n \in 1..Len(audio_frames) : audio_frames[n] = j

\* C25. When the construction of the engine or engine.start() fails inside
\* start_voice_recognition, the call goes to its except clause: it leaves
\* voice_enabled as it was (false when the call began) and the wake
\* listener's stream is not active after the failing step.
C25_StartFailureStaysIdle ==
    [][\A c \in Callers :
        /\ (/\ ctl[c] = "sv_start" /\ ctl'[c] # "sv_start"
            /\ stream = "inactive" /\ stream' # "active")
           => (ctl'[c] = "sv_except" /\ UNCHANGED voice_enabled)
        /\ (/\ ctl[c] = "sv_engine" /\ ctl'[c] # "sv_engine"
            /\ stream = "none" /\ stream' = "none")
           => (ctl'[c] = "sv_except" /\ UNCHANGED voice_enabled)
        /\ (ctl[c] # "sv_except" /\ ctl'[c] = "sv_except")
           => (stream' # "active" /\ (NumCallers = 1 => ~voice_enabled'))]_vars

C25_Witness ==
    \E c \in Callers :
        ctl[c] = "sv_except" /\ ~voice_enabled /\ stream = "inactive"

\* C26 as claimed. A failure of the construction or of engine.start() is not
\* caught inside start_voice_recognition: the call never reaches its except
\* clause, so the exception reaches the caller.
C26_ErrorPropagated ==
    \A c \in Callers : ctl[c] # "sv_except"

\* C26 as amended. The failure is caught inside start_voice_recognition: the
\* except clause logs it and the call returns to its caller, changing neither
\* voice_enabled nor the stream.
C26_ErrorLoggedNotRaised ==
    [][\A c \in Callers :
        (ctl[c] = "sv_except" /\ ctl'[c] # "sv_except")
        => (ctl'[c] = "idle" /\ UNCHANGED <<voice_enabled, stream, porcupine>>)]_vars

C26_Witness ==
    \E c \in Callers :
        ctl[c] = "sv_except" /\ ~voice_enabled /\ stream = "none"

\* C29. Once the recorder's stream has failed (aborted by a raising callback,
\* or stalled) with frames already captured, record_until_silence ends only
\* by returning, and what it returns is the frames captured so far.
C29_PartialBufferOnStreamFailure ==
    [][(/\ rstream \in {"aborted", "stalled"}
        /\ audio_frames # << >>
        /\ rpc \in {"loop", "sub", "close"}
        /\ rpc' \notin {"loop", "sub", "close"})
       => (rpc' = "returned" /\ result' = audio_frames)]_vars

\* C27. Once the shutdown sequence has run engine.stop() (the detector is
\* deleted), no recorder stream is active.
C27_StopReleasesAll ==
    ~porcupine => \A w \in Sessions : wk[w].rec # "active"

\* C28. Once every control call has returned, with no worker in flight, no
\* wake event being handled and the engine not stopped, voice_enabled is true
\* exactly when the wake listener's stream is active.
C28_ControlConsistent ==
    (/\ \A c \in Callers : ctl[c] = "idle"
     /\ \A w \in Sessions : ~InFlight(w) /\ cb[w] \notin {"on_wake", "spawn"}
     /\ porcupine)
    => (voice_enabled <=> stream = "active")

\* C30. The last call of route invoked no handler and returned ("llm", text)
\* when none of the commands registered at the call matches the text;
\* otherwise it invoked exactly one handler, that of the earliest-registered
\* matching command, with the whole text, and returned ("internal", result).
C30_FirstMatchWins ==
    routed # NoRoute =>
        LET matching == {k \in 1..routed.n : Search(commands[k].pattern, routed.text)}
        IN  IF matching = {}
            THEN /\ routed.calls = << >>
                 /\ routed.out = <<"llm", routed.text>>
            ELSE LET first == CHOOSE k \in matching : \A m \in matching : k <= m
                 IN  /\ routed.calls = << <<first, routed.text>> >>
                     /\ routed.out = <<"internal",
                                       Handle(commands[first].handler, routed.text)>>

C30_Witness ==
    /\ routed.n = 2
    /\ Len(routed.text) = 2
    /\ \A k \in 1..2 : Search(commands[k].pattern, routed.text)
    /\ commands[1].handler # commands[2].handler
    /\ routed.out = <<"internal", Handle(commands[1].handler, routed.text)>>

\* C31. At most one thread is inside the generation and playback of speak, the
\* lock is held exactly while a thread is inside, so that every thread that
\* has left speak, after playback or after an exception, has released it, and
\* no thread has left speak by an exception.
C31_SpeakSerialised ==
    /\ \A t, u \in Speakers : (spk[t].pc \in Inside /\ spk[u].pc \in Inside) => t = u
    /\ \A t \in Speakers : spk[t].pc \in Inside <=> tlock = t
    /\ \A t \in Speakers : spk[t].pc # "raised"

C31_Witness ==
    \E t, u \in Speakers :
        /\ spk[t].pc = "failed"
        /\ spk[u].pc = "play" /\ tlock = u

\* C32. silence_started_at is unset exactly while no speech was detected or
\* the last classified frame was speech; when set it is the time of the first
\* non-speech frame after the last speech frame, whatever non-speech frames
\* followed; and the loop was left by the silence test only with speech
\* detected, on a poll that read a time at least min_silence_time after it.
C32_SilenceTimer ==
    /\ (silence_started_at = << >>) <=>
            \/ ~have_detected_speech
            \/ \E p \in 1..Len(rcls) :
                    /\ rcls[p] = "speech"
                    /\ \A i \in (p + 1)..Len(rcls) : rcls[i] = "raise"
    /\ silence_started_at # << >> =>
            LET s == silence_started_at[1]
            IN  /\ s \in 2..Len(rcls)
                /\ rcls[s] = "silence"
                /\ \A j \in s..Len(rcls) : rcls[j] # "speech"
                /\ \E p \in 1..(s - 1) :
                        /\ rcls[p] = "speech"
                        /\ \A i \in (p + 1)..(s - 1) : rcls[i] = "raise"
    /\ exitBy = "silence" =>
            /\ have_detected_speech
            /\ silence_started_at # << >>
            /\ rnow >= silence_started_at[1] + MinSilenceFrames
            /\ rnow <= rclock

C32_Witness ==
    /\ rpc = "returned"
    /\ exitBy = "silence"
    /\ silence_started_at # << >>
    /\ silence_started_at[1] < Len(rcls)
    /\ \E a, b \in 1..Len(rcls) :
            /\ a < b /\ b < silence_started_at[1]
            /\ rcls[a] = "silence" /\ rcls[b] = "speech"
            /\ \E c \in 1..(a - 1) : rcls[c] = "speech"

\* C33. When no classifier call raised, the buffer record_until_silence
\* returns is an unbroken run of the delivered frames: each frame of the
\* buffer is the frame delivered next after the one before it, so no frame is
\* dropped, out of order or repeated.
C33_ContiguousOnce ==
    (rpc = "returned" /\ \A j \in 1..Len(rcls) : rcls[j] # "raise")
    => \A i \in 1..(Len(result) - 1) : result[i + 1] = result[i] + 1

\* C34. Before speech onset pad_buffer holds the latest frames delivered, at
\* most _pre_pad_frames of them, in arrival order, so the frames evicted are
\* the oldest; from the first speech frame on pad_buffer is empty.
C34_PreRollBounded ==
    /\ Len(pad_buffer) <= PrePadFrames
    /\ ~have_detected_speech =>
            /\ Len(pad_buffer) = IF Len(rcls) < PrePadFrames THEN Len(rcls)
                                 ELSE PrePadFrames
            /\ \A i \in 1..Len(pad_buffer) :
                    pad_buffer[i] = Len(rcls) - Len(pad_buffer) + i
    /\ have_detected_speech => pad_buffer = << >>

C34_Witness ==
    /\ have_detected_speech
    /\ pad_buffer = << >>
    /\ \E k \in (PrePadFrames + 1)..(Len(rcls) - 1) :
            /\ rcls[k] = "speech"
            /\ \A j \in 1..(k - 1) : rcls[j] = "silence"

\* C35. Whatever the interleaving of on_audio with the polling loop,
\* record_until_silence is not left by an exception of the loop's silence
\* test while captured frames are waiting in audio_frames.
C35_LoopNeverRaises ==
    ~(rpc = "raised" /\ exitBy = "error" /\ audio_frames # << >>)

\* C36. While voice recognition is switched off (voice_enabled false, no
\* control call in progress), the resume step of a worker that was in flight
\* when it was switched off does not make the wake listener's stream active.
C36_StoppedStaysStopped ==
    [][\A w \in Sessions :
        (/\ wk[w].pc = "resume" /\ wk'[w].pc # "resume"
         /\ ~voice_enabled
         /\ \A c \in Callers : ctl[c] = "idle"
         /\ stream # "active")
        => stream' # "active"]_vars

\* C37. A worker's call of _busy.release() finds the guard held by its own
\* session; the guard changes only by a callback thread's successful
\* try-acquire or by the release of the worker that holds it, so releases
\* never outnumber acquires; and a worker that has released has ended and
\* does nothing more.
C37_ReleaseOnlyWhileHeld ==
    [][/\ \A w \in Sessions :
            /\ (wk[w].pc \in {"check", "release"} /\ wk'[w].pc = "done")
                => (busy /\ holder = w /\ ~busy')
            /\ wk[w].pc \in {"done", "dead"} => wk'[w] = wk[w]
       /\ (~busy /\ busy') =>
            \E i \in Sessions : cb[i] = "on_wake" /\ cb'[i] = "spawn" /\ holder' = i
       /\ (busy /\ ~busy') =>
            \E w \in Sessions :
                holder = w /\ wk[w].pc \in {"check", "release"} /\ wk'[w].pc = "done"]_vars

C37_Witness ==
    \E w, v \in Sessions :
        /\ wk[w].pc = "done"
        /\ wk[v].pc = "release" /\ wk[v].handled = 1
        /\ busy /\ holder = v

\* C38. When the loop was left by the timeout test after speech had been
\* detected, record_until_silence returns audio_frames as it is then, which
\* is not empty and holds every frame classified as speech, and the worker
\* goes on to transcribe instead of releasing the guard without transcribing.
C38_TimeoutKeepsSpeech ==
    (exitBy = "timeout" /\ have_detected_speech)
    => /\ rpc \in {"close", "returned", "transcribe"}
       /\ audio_frames # << >>
       /\ rpc # "close" =>
            /\ result = audio_frames
            /\ \A j \in 1..Len(rcls) :
                    rcls[j] = "speech" => \E n \in 1..Len(result) : result[n] = j

C38_Witness ==
    /\ rpc = "transcribe"
    /\ exitBy = "timeout"
    /\ rcls[Len(rcls)] = "speech"
    /\ \E j \in 1..Len(rcls) : rcls[j] = "silence" /\ \E n \in 1..Len(result) : result[n] = j

\* C39. While the speaker thread started by handle_command for one session
\* is still synthesising or playing the reply, the guard is held by that
\* session and no other session has its recorder open.
C39_GuardHeldWhileSpeaking ==
    \A t \in Speakers :
        spk[t].pc \in {"called", "wait", "generate", "play"}
        => /\ busy /\ holder = t
           /\ \A w \in Sessions : w # t => wk[w].rec # "active"
=============================================================================
